---- MODULE Spec2Model ----
(***************************************************************************)
(* Nexo API (src/main.py): the order / payment-proof / admin-review        *)
(* workflow.  Every request handler runs in a worker and talks to the      *)
(* relational store through one SQLAlchemy session (autocommit=False): its *)
(* writes are buffered in the session's transaction and become visible to  *)
(* other sessions at db.commit(); leaving the `with SessionLocal()` block  *)
(* through an HTTPException rolls the transaction back.  Each statement    *)
(* reads the rows committed when it runs (PostgreSQL's default READ        *)
(* COMMITTED), an UPDATE locks the rows it changes until the transaction   *)
(* ends.                                                                   *)
(***************************************************************************)
EXTENDS Integers, Sequences, FiniteSets, TLC

VARIABLES
    adminKey,        \* ADMIN_API_KEY read from the environment at start-up
    products,        \* table products: id -> [price_sar, is_active]
    orders,          \* table orders: id -> [status, total_sar]
    order_items,     \* table order_items: sequence of rows
    payment_proofs,  \* table payment_proofs: sequence of rows
    blobs,           \* objects stored in the Supabase bucket (their paths)
    nextOrder,       \* number of order ids handed out by uuid4 so far
    nextBlob,        \* number of blob names handed out by uuid4 so far
    pc,              \* per worker: the statement it is about to run
    loc,             \* per worker: the handler's live local variables
    tx,              \* per worker: writes of its open transaction
    out              \* the response the last step sent, with its request

vars == <<adminKey, products, orders, order_items, payment_proofs, blobs,
          nextOrder, nextBlob, pc, loc, tx, out>>

db == <<orders, order_items, payment_proofs>>

(***************************************************************************)
(* Bounds of the model.                                                    *)
(***************************************************************************)
MaxOrders == 1      \* orders one behaviour creates
MaxItems == 2       \* entries of one createOrder item list
MaxUploads == 2     \* blob names one behaviour hands out

Procs == {"w1", "w2"}
OrderIds == 1..MaxOrders

\* Python's None / SQL NULL / a header or form field that was not sent.
NoValue == "<none>"

(***************************************************************************)
(* The catalog.  Product rows are maintained outside this program; it only *)
(* reads them.                                                             *)
(***************************************************************************)
ProductIds == {"p1", "p2", "p3"}
RawProductIds == {"p1", " p1 ", "p2", "p3", "p9"}
Qtys == {1, 2}
InitialCatalog ==
    [p \in ProductIds |->
        CASE p = "p1" -> [price_sar |-> 3, is_active |-> TRUE]
          [] p = "p2" -> [price_sar |-> 5, is_active |-> TRUE]
          [] p = "p3" -> [price_sar |-> 7, is_active |-> FALSE]]

\* str.strip() on the product ids the model sends
Strip(s) == IF s = " p1 " THEN "p1" ELSE s

ItemsIn == [product_id : RawProductIds, qty : Qtys]
RECURSIVE ListsUpTo(_, _)
ListsUpTo(S, n) ==
    IF n = 0 THEN {<<>>}
    ELSE LET shorter == ListsUpTo(S, n - 1)
         IN  shorter \cup {Append(l, x) : l \in {m \in shorter : Len(m) = n - 1}, x \in S}
Payloads == ListsUpTo(ItemsIn, MaxItems)

(***************************************************************************)
(* Responses.  An HTTPException(status_code, detail) is a response with    *)
(* that code and detail; a return value is a 200 with a body.              *)
(***************************************************************************)
Http(code, detail) == [code |-> code, detail |-> detail, body |-> <<>>]
HttpWith(code, detail, body) == [code |-> code, detail |-> detail, body |-> body]
Ok(body) == [code |-> 200, detail |-> "ok", body |-> body]

\* out when the last step sent no response
Silent == [op |-> "none", code |-> 0]

NoLoc == [none |-> TRUE]

(***************************************************************************)
(* Transactions.  A write is buffered in tx[p]; Commit applies the buffer, *)
(* in order, to the tables.  Every handler raises its HTTPExceptions       *)
(* before its first write, so a session that is left without commit has    *)
(* an empty buffer and nothing to roll back.                               *)
(***************************************************************************)
RowsOf(table, oid) == {i \in 1..Len(table) : table[i].order_id = oid}

\* a store that loses the status updates of orders
ApplyOrders_insert_only(os, w) ==
    IF w.op = "insert_order"
      THEN [i \in DOMAIN os \cup {w.id} |->
              IF i = w.id THEN [status |-> w.status, total_sar |-> w.total_sar]
                          ELSE os[i]]
    ELSE os

ApplyOrders(os, w) ==
    IF w.op = "insert_order"
      THEN [i \in DOMAIN os \cup {w.id} |->
              IF i = w.id THEN [status |-> w.status, total_sar |-> w.total_sar]
                          ELSE os[i]]
    ELSE IF w.op = "update_order" /\ w.id \in DOMAIN os
      THEN [os EXCEPT ![w.id].status = w.status]
    ELSE os

ApplyItems(its, w) ==
    IF w.op = "insert_item" THEN Append(its, w.row) ELSE its

\* a review whose update sets note = :note, without the coalesce
ApplyProofs_overwrite_note(ps, w) ==
    IF w.op = "insert_proof" THEN Append(ps, w.row)
    ELSE IF w.op = "update_proofs"
      THEN [i \in 1..Len(ps) |->
              IF i \in w.rows
                THEN [ps[i] EXCEPT !.status = w.status, !.note = w.note]
                ELSE ps[i]]
    ELSE ps

ApplyProofs(ps, w) ==
    IF w.op = "insert_proof" THEN Append(ps, w.row)
    ELSE IF w.op = "update_proofs"
      THEN [i \in 1..Len(ps) |->
              IF i \in w.rows
                THEN [ps[i] EXCEPT !.status = w.status,
                                   !.note = IF w.note = NoValue THEN @ ELSE w.note]
                ELSE ps[i]]
    ELSE ps

RECURSIVE Fold(_, _, _)
Fold(Op(_, _), acc, ws) ==
    IF ws = <<>> THEN acc ELSE Fold(Op, Op(acc, Head(ws)), Tail(ws))

\* db.commit(): every buffered write becomes visible at once
Commit(p) ==
    /\ orders' = Fold(ApplyOrders, orders, tx[p])
    /\ order_items' = Fold(ApplyItems, order_items, tx[p])
    /\ payment_proofs' = Fold(ApplyProofs, payment_proofs, tx[p])
    /\ tx' = [tx EXCEPT ![p] = <<>>]

\* rows another open transaction has updated and therefore holds locked
OrderLocked(p, oid) ==
    \E q \in Procs \ {p} : \E i \in 1..Len(tx[q]) :
        tx[q][i].op = "update_order" /\ tx[q][i].id = oid
ProofLocked(p, rows) ==
    \E q \in Procs \ {p} : \E i \in 1..Len(tx[q]) :
        tx[q][i].op = "update_proofs" /\ tx[q][i].rows \cap rows # {}

\* the handler of request r returns or raises: the response goes out
Finish(p, r, response) ==
    /\ pc' = [pc EXCEPT ![p] = "idle"]
    /\ loc' = [loc EXCEPT ![p] = NoLoc]
    /\ out' = [op |-> r.op, code |-> response.code, detail |-> response.detail,
               body |-> response.body, req |-> r]

\* the handler goes on to the statement at label
Goto(p, label, l) ==
    /\ pc' = [pc EXCEPT ![p] = label]
    /\ loc' = [loc EXCEPT ![p] = l]
    /\ out' = Silent

\* the state after start-up, for an environment that sets ADMIN_API_KEY to key
Start(key) ==
    /\ adminKey = key
    /\ products = InitialCatalog
    /\ orders = <<>>
    /\ order_items = <<>>
    /\ payment_proofs = <<>>
    /\ blobs = {}
    /\ nextOrder = 0
    /\ nextBlob = 0
    /\ pc = [p \in Procs |-> "idle"]
    /\ loc = [p \in Procs |-> NoLoc]
    /\ tx = [p \in Procs |-> <<>>]
    /\ out = Silent

Init == Start("s3cret")

\* ... and for every kind of environment: the key set, empty or not set
InitAnyKey == \E key \in {NoValue, "", "s3cret"} : Start(key)

(***************************************************************************)
(* POST /api/orders                                                        *)
(***************************************************************************)
\* the deduplicated, stripped product ids of the request
RequestedIds(items) == {Strip(items[i].product_id) : i \in 1..Len(items)}

\* select id, price_sar from products where is_active and id in (...)
PriceMap(ids) ==
    [id \in {i \in ids \cap DOMAIN products : products[i].is_active} |->
        products[id].price_sar]

\* a create_order that reports the first missing id only
MissingIds_first(ids, price_map) ==
    LET missing == {pid \in ids : pid \notin DOMAIN price_map}
    IN IF missing = {} THEN {} ELSE {CHOOSE pid \in missing : TRUE}

MissingIds(ids, price_map) == {pid \in ids : pid \notin DOMAIN price_map}

\* a create_order that sums over the deduplicated product ids: a product
\* repeated in the item list counts once, at the quantity of its last entry
RECURSIVE OrderTotal_dedup(_, _)
OrderTotal_dedup(items, price_map) ==
    IF items = <<>> THEN 0
    ELSE LET pid == Strip(Head(items).product_id)
             later == {Strip(Tail(items)[i].product_id) : i \in 1..Len(Tail(items))}
         IN (IF pid \in later THEN 0 ELSE price_map[pid] * Head(items).qty)
            + OrderTotal_dedup(Tail(items), price_map)

RECURSIVE OrderTotal(_, _)
OrderTotal(items, price_map) ==
    IF items = <<>> THEN 0
    ELSE price_map[Strip(Head(items).product_id)] * Head(items).qty
         + OrderTotal(Tail(items), price_map)

\* a create_order without the check of line 113
EmptyItems_unchecked(items) == FALSE

\* line 113: `not payload.items`
EmptyItems(items) == items = <<>>

\* lines 113-150
create_order_begin(p, items) ==
    /\ pc[p] = "idle"
    /\ LET r == [op |-> "create_order", items |-> items]
       IN IF EmptyItems(items)
         THEN /\ Finish(p, r, Http(400, "Empty items"))
              /\ UNCHANGED <<tx, nextOrder>>
         ELSE LET product_ids == RequestedIds(items)
                  price_map == PriceMap(product_ids)
              IN IF Cardinality(DOMAIN price_map) # Cardinality(product_ids)
                   THEN /\ Finish(p, r, HttpWith(400, "Products not found",
                                                 MissingIds(product_ids, price_map)))
                        /\ UNCHANGED <<tx, nextOrder>>
                   ELSE /\ nextOrder < MaxOrders
                        /\ nextOrder' = nextOrder + 1
                        /\ LET total == OrderTotal(items, price_map)
                           IN /\ tx' = [tx EXCEPT ![p] =
                                    <<[op |-> "insert_order", id |-> nextOrder + 1,
                                       status |-> "pending_payment",
                                       total_sar |-> total]>>]
                              /\ Goto(p, IF Len(items) = 0 THEN "create_commit"
                                                            ELSE "create_items",
                                      [req |-> r, order_id |-> nextOrder + 1,
                                       total |-> total, price_map |-> price_map,
                                       i |-> 1])
    /\ UNCHANGED <<adminKey, products, db, blobs, nextBlob>>

\* lines 152-164: one iteration of the loop that inserts the order's items
create_order_item(p) ==
    /\ pc[p] = "create_items"
    /\ LET l == loc[p]
           it == l.req.items[l.i]
           pid == Strip(it.product_id)
       IN /\ tx' = [tx EXCEPT ![p] = Append(@,
                      [op |-> "insert_item",
                       row |-> [order_id |-> l.order_id, product_id |-> pid,
                                qty |-> it.qty, price_sar |-> l.price_map[pid]]])]
          /\ Goto(p, IF l.i = Len(l.req.items) THEN "create_commit" ELSE "create_items",
                  [l EXCEPT !.i = @ + 1])
    /\ UNCHANGED <<adminKey, products, db, blobs, nextOrder, nextBlob>>

\* lines 166-168
create_order_commit(p) ==
    /\ pc[p] = "create_commit"
    /\ Commit(p)
    /\ Finish(p, loc[p].req,
              Ok([order_id |-> loc[p].order_id, status |-> "pending_payment",
                  total_sar |-> loc[p].total]))
    /\ UNCHANGED <<adminKey, products, blobs, nextOrder, nextBlob>>

(***************************************************************************)
(* GET /api/orders/{order_id}: three selects, each reading what is         *)
(* committed when it runs.                                                 *)
(***************************************************************************)
\* lines 174-180
get_order_begin(p, order_id) ==
    /\ pc[p] = "idle"
    /\ LET r == [op |-> "get_order", order_id |-> order_id]
       IN IF order_id \notin DOMAIN orders
            THEN Finish(p, r, Http(404, "Order not found"))
            ELSE Goto(p, "get_items", [req |-> r, order |-> orders[order_id]])
    /\ UNCHANGED <<adminKey, products, db, blobs, nextOrder, nextBlob, tx>>

\* a get_order that reports the product's current catalog price
ItemsOf_current_price(oid) ==
    LET Mine(row) == row.order_id = oid
        Col(row) == [product_id |-> row.product_id, qty |-> row.qty,
                     price_sar |-> products[row.product_id].price_sar]
        rows == SelectSeq(order_items, Mine)
    IN [i \in 1..Len(rows) |-> Col(rows[i])]

ItemsOf(oid) ==
    LET Mine(row) == row.order_id = oid
        Col(row) == [product_id |-> row.product_id, qty |-> row.qty,
                     price_sar |-> row.price_sar]
        rows == SelectSeq(order_items, Mine)
    IN [i \in 1..Len(rows) |-> Col(rows[i])]

\* lines 182-186
get_order_items(p) ==
    /\ pc[p] = "get_items"
    /\ Goto(p, "get_proof",
            [req |-> loc[p].req, order |-> loc[p].order,
             items |-> ItemsOf(loc[p].req.order_id)])
    /\ UNCHANGED <<adminKey, products, db, blobs, nextOrder, nextBlob, tx>>

\* .first() of a select without ORDER BY: any of the matching rows, or none
FirstProofs(oid) ==
    IF RowsOf(payment_proofs, oid) = {} THEN {<<>>}
    ELSE { <<[status |-> payment_proofs[i].status,
              amount_sar |-> payment_proofs[i].amount_sar,
              file_path |-> payment_proofs[i].file_path]>> :
           i \in RowsOf(payment_proofs, oid) }

\* lines 188-198
get_order_proof(p) ==
    /\ pc[p] = "get_proof"
    /\ \E proof \in FirstProofs(loc[p].req.order_id) :
          Finish(p, loc[p].req,
                 Ok([order |-> loc[p].order, items |-> loc[p].items,
                     payment_proof |-> proof]))
    /\ UNCHANGED <<adminKey, products, db, blobs, nextOrder, nextBlob, tx>>

(***************************************************************************)
(* POST /api/orders/{order_id}/payment-proof                               *)
(***************************************************************************)
allowed_types == {"image/jpeg", "image/png", "application/pdf"}
MaxProofBytes == 5 * 1024 * 1024

ContentTypes == {"image/png", "application/pdf", "text/plain"}
Sizes == {MaxProofBytes, MaxProofBytes + 1}
\* the amount_sar and note form fields: absent, or sent
PaidForm == [amount_sar |-> <<50>>, note |-> "paid"]
ProofForms == { [amount_sar |-> <<>>, note |-> NoValue], PaidForm }
ReqOrderIds == 1..(MaxOrders + 1)

\* a size check that also rejects a payload of exactly the cap
TooLarge_inclusive(size) == size >= MaxProofBytes

\* an upload_payment_proof without the check of lines 250-255
AlreadySubmitted_unchecked(order_id) == FALSE

\* line 210
TypeAllowed(content_type) == content_type \in allowed_types
\* line 214
TooLarge(size) == size > MaxProofBytes
\* lines 250-254: a proof row of the order is visible to the statement
AlreadySubmitted(order_id) == RowsOf(payment_proofs, order_id) # {}

\* checks on the file that test the size before the content type
FileCheck_size_first(content_type, size) ==
    IF TooLarge(size)
      THEN Http(400, "File too large (max 5MB)")
    ELSE IF ~TypeAllowed(content_type)
      THEN Http(400, "Unsupported file type (jpg/png/pdf only)")
    ELSE Silent

\* lines 209-215: the response the checks on the file raise, or Silent when
\* the file passes them
FileCheck(content_type, size) ==
    IF ~TypeAllowed(content_type)
      THEN Http(400, "Unsupported file type (jpg/png/pdf only)")
    ELSE IF TooLarge(size)
      THEN Http(400, "File too large (max 5MB)")
    ELSE Silent

\* an upload_payment_proof without the check of lines 239-240
UploadError_ignored(upload_ok) == FALSE

\* line 239: the result of the upload carries an error
UploadError(upload_ok) == ~upload_ok

\* lines 209-240: the checks on the file, then the upload to the bucket
upload_payment_proof_begin(p, order_id, content_type, size, form, upload_ok) ==
    /\ pc[p] = "idle"
    /\ LET r == [op |-> "upload_payment_proof", order_id |-> order_id,
                 content_type |-> content_type, size |-> size,
                 amount_sar |-> form.amount_sar, note |-> form.note,
                 upload_ok |-> upload_ok]
           check == FileCheck(content_type, size)
       IN IF check # Silent
            THEN /\ Finish(p, r, check)
                 /\ UNCHANGED <<blobs, nextBlob>>
          ELSE /\ nextBlob < MaxUploads
               /\ nextBlob' = nextBlob + 1
               /\ LET path == <<order_id, nextBlob + 1>>
                  IN /\ blobs' = IF upload_ok THEN blobs \cup {path} ELSE blobs
                     /\ IF UploadError(upload_ok)
                          THEN Finish(p, r, Http(500, "Upload failed"))
                          ELSE Goto(p, "proof_order",
                                    [req |-> r, order_id |-> order_id,
                                     path |-> path])
    /\ UNCHANGED <<adminKey, products, db, nextOrder, tx>>

\* lines 243-248
upload_payment_proof_order(p) ==
    /\ pc[p] = "proof_order"
    /\ IF loc[p].order_id \notin DOMAIN orders
         THEN Finish(p, loc[p].req, Http(404, "Order not found"))
         ELSE Goto(p, "proof_already", loc[p])
    /\ UNCHANGED <<adminKey, products, db, blobs, nextOrder, nextBlob, tx>>

\* lines 250-261: the existence check, then the insert
upload_payment_proof_insert(p) ==
    /\ pc[p] = "proof_already"
    /\ LET l == loc[p]
       IN IF AlreadySubmitted(l.order_id)
            THEN /\ Finish(p, l.req, Http(400, "Payment proof already submitted"))
                 /\ UNCHANGED tx
            ELSE /\ tx' = [tx EXCEPT ![p] = Append(@,
                            [op |-> "insert_proof",
                             row |-> [order_id |-> l.order_id, file_path |-> l.path,
                                      amount_sar |-> l.req.amount_sar,
                                      note |-> l.req.note, status |-> "submitted"]])]
                 /\ Goto(p, "proof_update", l)
    /\ UNCHANGED <<adminKey, products, db, blobs, nextOrder, nextBlob>>

\* lines 264-267: waits while another transaction holds the order row
upload_payment_proof_update(p) ==
    /\ pc[p] = "proof_update"
    /\ ~OrderLocked(p, loc[p].order_id)
    /\ tx' = [tx EXCEPT ![p] = Append(@,
                [op |-> "update_order", id |-> loc[p].order_id,
                 status |-> "proof_submitted"])]
    /\ Goto(p, "proof_commit", loc[p])
    /\ UNCHANGED <<adminKey, products, db, blobs, nextOrder, nextBlob>>

\* lines 269-271
upload_payment_proof_commit(p) ==
    /\ pc[p] = "proof_commit"
    /\ Commit(p)
    /\ Finish(p, loc[p].req,
              Ok([order_id |-> loc[p].order_id, status |-> "proof_submitted",
                  file_path |-> loc[p].path,
                  amount_sar |-> loc[p].req.amount_sar]))
    /\ UNCHANGED <<adminKey, products, blobs, nextOrder, nextBlob>>

(***************************************************************************)
(* Admin: the shared-secret gate, review and the worklist                  *)
(***************************************************************************)
\* a gate that compares the keys without the check of lines 20-21
require_admin_compare_only(x_admin_key) ==
    IF x_admin_key # adminKey THEN Http(401, "Unauthorized") ELSE Silent

\* require_admin: the response it raises, or Silent when it lets the call pass
require_admin(x_admin_key) ==
    IF adminKey = NoValue \/ adminKey = ""
      THEN Http(500, "ADMIN_API_KEY not set")
    ELSE IF x_admin_key # adminKey
      THEN Http(401, "Unauthorized")
    ELSE Silent

Keys == {NoValue, "", "s3cret", "wrong"}
Decisions == {"approve", " Reject ", "maybe"}
ReviewNotes == {NoValue, "checked"}

\* decision.lower().strip() on the decisions the model sends
Normalize(d) == IF d = " Reject " THEN "reject" ELSE d

\* a review_order that validates the decision before it calls the gate
ReviewPrecheck_decision_first(x_admin_key, decision) ==
    IF decision \notin {"approve", "reject"}
      THEN Http(400, "decision must be approve or reject")
    ELSE require_admin(x_admin_key)

\* lines 280-284: the response the gate or the decision check raises, or
\* Silent when the call passes both
ReviewPrecheck(x_admin_key, decision) ==
    LET gate == require_admin(x_admin_key)
    IN IF gate # Silent
         THEN gate
       ELSE IF decision \notin {"approve", "reject"}
         THEN Http(400, "decision must be approve or reject")
       ELSE Silent

\* lines 280-287
review_order_begin(p, order_id, decision_in, note, x_admin_key) ==
    /\ pc[p] = "idle"
    /\ LET r == [op |-> "review_order", order_id |-> order_id,
                 decision |-> decision_in, note |-> note, key |-> x_admin_key]
           decision == Normalize(decision_in)
           check == ReviewPrecheck(x_admin_key, decision)
       IN IF check # Silent
            THEN Finish(p, r, check)
          ELSE Goto(p, "review_order",
                    [req |-> r, order_id |-> order_id,
                     new_order_status |-> IF decision = "approve" THEN "approved"
                                                                   ELSE "rejected",
                     new_proof_status |-> IF decision = "approve" THEN "approved"
                                                                   ELSE "rejected"])
    /\ UNCHANGED <<adminKey, products, db, blobs, nextOrder, nextBlob, tx>>

\* a review_order without the check of lines 300-301
NoProofToReview_unchecked(rows) == FALSE

\* a review_order that reviews proofs still in status submitted only
NoProofToReview_unless_submitted(rows) ==
    \A i \in rows : payment_proofs[i].status # "submitted"

\* lines 297-300: no proof row of the order is visible to the statement
NoProofToReview(rows) == rows = {}

\* lines 291-295
review_order_select_order(p) ==
    /\ pc[p] = "review_order"
    /\ IF loc[p].order_id \notin DOMAIN orders
         THEN Finish(p, loc[p].req, Http(404, "Order not found"))
         ELSE Goto(p, "review_proof", loc[p])
    /\ UNCHANGED <<adminKey, products, db, blobs, nextOrder, nextBlob, tx>>

\* lines 297-308: the proof must exist; update the rows the statement sees,
\* waiting while another transaction holds one of them
review_order_update_proof(p) ==
    /\ pc[p] = "review_proof"
    /\ LET l == loc[p]
           rows == RowsOf(payment_proofs, l.order_id)
       IN IF NoProofToReview(rows)
            THEN /\ Finish(p, l.req, Http(400, "No payment proof to review"))
                 /\ UNCHANGED tx
            ELSE /\ ~ProofLocked(p, rows)
                 /\ tx' = [tx EXCEPT ![p] = Append(@,
                             [op |-> "update_proofs", rows |-> rows,
                              status |-> l.new_proof_status, note |-> l.req.note])]
                 /\ Goto(p, "review_update", l)
    /\ UNCHANGED <<adminKey, products, db, blobs, nextOrder, nextBlob>>

\* lines 310-314
review_order_update_order(p) ==
    /\ pc[p] = "review_update"
    /\ ~OrderLocked(p, loc[p].order_id)
    /\ tx' = [tx EXCEPT ![p] = Append(@,
                [op |-> "update_order", id |-> loc[p].order_id,
                 status |-> loc[p].new_order_status])]
    /\ Goto(p, "review_commit", loc[p])
    /\ UNCHANGED <<adminKey, products, db, blobs, nextOrder, nextBlob>>

\* lines 316-318
review_order_commit(p) ==
    /\ pc[p] = "review_commit"
    /\ Commit(p)
    /\ Finish(p, loc[p].req,
              Ok([order_id |-> loc[p].order_id,
                  order_status |-> loc[p].new_order_status,
                  proof_status |-> loc[p].new_proof_status]))
    /\ UNCHANGED <<adminKey, products, blobs, nextOrder, nextBlob>>

Statuses == {"pending_payment", "proof_submitted", "approved", "rejected"}

\* GET /admin/orders: one select (its LIMIT 100 is beyond MaxOrders)
admin_list_orders(p, status, x_admin_key) ==
    /\ pc[p] = "idle"
    /\ LET r == [op |-> "admin_list_orders", status |-> status, key |-> x_admin_key]
           gate == require_admin(x_admin_key)
       IN IF gate # Silent
            THEN Finish(p, r, gate)
            ELSE Finish(p, r, Ok({[id |-> i, status |-> orders[i].status,
                                   total_sar |-> orders[i].total_sar] :
                                  i \in {j \in DOMAIN orders : orders[j].status = status}}))
    /\ UNCHANGED <<adminKey, products, db, blobs, nextOrder, nextBlob, tx>>

(***************************************************************************)
(* Specifications.                                                         *)
(*   Spec       the workflow under concurrency: every worker may serve a   *)
(*              request at any time and the statements of the handlers     *)
(*              interleave; well-formed requests only.                     *)
(*   SpecSeq    requests processed one at a time, over every kind of       *)
(*              request (bad files, failing uploads, bad decisions,        *)
(*              unknown ids).                                              *)
(*   SpecAdmin  the admin endpoints, one request at a time, over every     *)
(*              environment and every key.                                 *)
(*   SpecLedger createOrder on the empty store, then getOrder, over every  *)
(*              item list of up to MaxItems entries.                       *)
(*   SpecCatalog, SpecObserve and SpecRace are defined further down, next   *)
(*   to the properties they are used for.                                  *)
(***************************************************************************)
\* a handler that has started runs its next statement
Continue(p) ==
    \/ create_order_item(p)
    \/ create_order_commit(p)
    \/ get_order_items(p)
    \/ get_order_proof(p)
    \/ upload_payment_proof_order(p)
    \/ upload_payment_proof_insert(p)
    \/ upload_payment_proof_update(p)
    \/ upload_payment_proof_commit(p)
    \/ review_order_select_order(p)
    \/ review_order_update_proof(p)
    \/ review_order_update_order(p)
    \/ review_order_commit(p)

\* requests processed one at a time: one worker serves them all
OneWorker == {"w1"}

WorkflowPayloads ==
    { <<[product_id |-> " p1 ", qty |-> 2], [product_id |-> "p1", qty |-> 1]>> }

Next ==
    \E p \in Procs :
        \/ \E items \in WorkflowPayloads : create_order_begin(p, items)
        \/ \E o \in OrderIds : get_order_begin(p, o)
        \/ \E o \in OrderIds, f \in ProofForms :
              upload_payment_proof_begin(p, o, "image/png", MaxProofBytes, f, TRUE)
        \/ \E o \in OrderIds, d \in {"approve", " Reject "}, n \in ReviewNotes :
              review_order_begin(p, o, d, n, "s3cret")
        \/ admin_list_orders(p, "proof_submitted", "s3cret")
        \/ Continue(p)

Spec == Init /\ [][Next]_vars

SeqPayloads ==
    WorkflowPayloads \cup
    { <<>>, <<[product_id |-> "p3", qty |-> 1]>> }

NextSeq ==
    \E p \in OneWorker :
        \/ \E items \in SeqPayloads : create_order_begin(p, items)
        \/ \E o \in ReqOrderIds : get_order_begin(p, o)
        \/ \E o \in ReqOrderIds, c \in ContentTypes, n \in Sizes, ok \in BOOLEAN :
              upload_payment_proof_begin(p, o, c, n, PaidForm, ok)
        \/ \E o \in ReqOrderIds, d \in Decisions, n \in ReviewNotes :
              review_order_begin(p, o, d, n, "s3cret")
        \/ \E s \in {"proof_submitted", "approved"} :
              admin_list_orders(p, s, "s3cret")
        \/ Continue(p)

SpecSeq == Init /\ [][NextSeq]_vars

NextAdmin ==
    \E p \in OneWorker :
        \/ \E items \in WorkflowPayloads : create_order_begin(p, items)
        \/ \E o \in OrderIds : get_order_begin(p, o)
        \/ \E o \in OrderIds :
              upload_payment_proof_begin(p, o, "image/png", MaxProofBytes,
                                         PaidForm, TRUE)
        \/ \E o \in ReqOrderIds, d \in Decisions, n \in ReviewNotes, k \in Keys :
              review_order_begin(p, o, d, n, k)
        \/ \E s \in Statuses, k \in Keys : admin_list_orders(p, s, k)
        \/ Continue(p)

SpecAdmin == InitAnyKey /\ [][NextAdmin]_vars

NextLedger ==
    \E p \in OneWorker :
        \/ orders = <<>> /\ \E items \in Payloads : create_order_begin(p, items)
        \/ create_order_item(p)
        \/ create_order_commit(p)
        \/ \E o \in ReqOrderIds : get_order_begin(p, o)
        \/ get_order_items(p)
        \/ get_order_proof(p)

SpecLedger == Init /\ [][NextLedger]_vars

(***************************************************************************)
(* Properties.                                                             *)
(*                                                                         *)
(* A step that sends a response leaves it in out' together with the        *)
(* request it answers; the unprimed variables are the store before that    *)
(* step, the primed ones the store after it.                               *)
(***************************************************************************)
HasProof(o) == \E i \in 1..Len(payment_proofs) : payment_proofs[i].order_id = o
Final == {"approved", "rejected"}
FiveMiB == 5242880
IsActive(id) == id \in DOMAIN products /\ products[id].is_active

\* C1: an order whose status has become approved or rejected never changes
\* status again, whatever operation comes next.
C1_FinalStatusNeverChanges ==
    [][\A o \in DOMAIN orders :
          orders[o].status \in Final => orders'[o].status = orders[o].status]_vars

DuplicateError(o) == o.code = 400 /\ o.detail = "Payment proof already submitted"
FileAccepted(r) ==
    /\ r.content_type \in {"image/jpeg", "image/png", "application/pdf"}
    /\ r.size <= FiveMiB
    /\ r.upload_ok

\* C2 as stated: with requests processed one at a time (and a blob store that
\* accepts the write), every submitProof on an order that already has a proof
\* fails with the duplicate-submission error and leaves the proof rows and
\* the order statuses as they were.
C2_EveryLaterSubmitIsDuplicate ==
    [][(/\ out'.op = "upload_payment_proof"
        /\ HasProof(out'.req.order_id)
        /\ out'.req.upload_ok) =>
           (DuplicateError(out') /\ UNCHANGED <<payment_proofs, orders>>)]_vars

\* C2 as amended: with requests processed one at a time, every submitProof on
\* an order that already has a proof fails and leaves the proof rows and the
\* order statuses as they were; it fails with the duplicate-submission error
\* when its content type is allowed, its payload is within the cap and its
\* blob write succeeded (an earlier check's error otherwise).
C2_LaterSubmitFails ==
    [][(out'.op = "upload_payment_proof" /\ HasProof(out'.req.order_id)) =>
          /\ out'.code # 200
          /\ UNCHANGED <<payment_proofs, orders>>
          /\ FileAccepted(out'.req) => DuplicateError(out')]_vars

C2_Witness ==
    /\ out.op = "upload_payment_proof"
    /\ DuplicateError(out)
    /\ HasProof(out.req.order_id)

\* C3: at most one PaymentProof row exists per order in every reachable
\* state, also when submitProof requests for one order run concurrently.
C3_AtMostOneProofPerOrder ==
    \A o \in ReqOrderIds : Cardinality(RowsOf(payment_proofs, o)) <= 1

RECURSIVE SumOfEntries(_)
SumOfEntries(items) ==
    IF items = <<>> THEN 0
    ELSE products[Strip(Head(items).product_id)].price_sar * Head(items).qty
         + SumOfEntries(Tail(items))
AllActive(items) == \A i \in 1..Len(items) : IsActive(Strip(items[i].product_id))

\* C4: for every non-empty item list whose products are all active,
\* createOrder succeeds, returns and stores total = the sum over every entry
\* of the list (a repeated product counted once per entry) of catalog unit
\* price x quantity, and the order is created with status pending_payment.
C4_TotalIsSumOverEntries ==
    (out.op = "create_order" /\ out.req.items # <<>> /\ AllActive(out.req.items)) =>
        /\ out.code = 200
        /\ out.body.total_sar = SumOfEntries(out.req.items)
        /\ out.body.status = "pending_payment"
        /\ out.body.order_id \in DOMAIN orders
        /\ orders[out.body.order_id] =
              [status |-> "pending_payment",
               total_sar |-> SumOfEntries(out.req.items)]

C4_Witness ==
    /\ out.op = "create_order"
    /\ out.code = 200
    /\ Len(out.req.items) = 2
    /\ Strip(out.req.items[1].product_id) = Strip(out.req.items[2].product_id)
    /\ out.req.items[1].qty # out.req.items[2].qty

\* C5: review sets order.status and proof.status in one atomic step, so no
\* getOrder result shows one of the two statuses at approved or rejected and
\* the other not.
C5_GetOrderNeverShowsOneWithoutTheOther ==
    (out.op = "get_order" /\ out.code = 200 /\ out.body.payment_proof # <<>>) =>
        LET os == out.body.order.status
            ps == out.body.payment_proof[1].status
        IN (os \in Final \/ ps \in Final) => os = ps

ValidDecision(d) == d \in {"approve", " Reject "}
Everything == <<products, orders, order_items, payment_proofs, blobs,
                nextOrder, nextBlob, tx>>

\* C6: review with the right key and a valid decision on an existing order
\* that has no proof fails with 400 'No payment proof to review' and changes
\* nothing; no step takes an order from pending_payment to approved or
\* rejected.
C6_ReviewWithoutProofRejected ==
    [][/\ (/\ out'.op = "review_order"
           /\ out'.req.key = adminKey
           /\ ValidDecision(out'.req.decision)
           /\ out'.req.order_id \in DOMAIN orders
           /\ ~HasProof(out'.req.order_id)) =>
              /\ out'.code = 400
              /\ out'.detail = "No payment proof to review"
              /\ UNCHANGED Everything
       /\ \A o \in DOMAIN orders :
             orders[o].status = "pending_payment" => orders'[o].status \notin Final]_vars

C6_Witness ==
    /\ out.op = "review_order"
    /\ out.detail = "No payment proof to review"
    /\ orders[out.req.order_id].status = "pending_payment"

AdminOp(o) == o.op \in {"review_order", "admin_list_orders"}
SecretConfigured == adminKey \notin {NoValue, ""}

\* C7: review and listByStatus fail with 500 'ADMIN_API_KEY not set' whenever
\* no admin secret is configured, whatever key is sent; otherwise with 401
\* whenever the key is absent or differs from the secret; in both cases no
\* order, item, proof or blob changes.
C7_AdminGate ==
    [][AdminOp(out') =>
          /\ ~SecretConfigured =>
                /\ out'.code = 500
                /\ out'.detail = "ADMIN_API_KEY not set"
                /\ UNCHANGED Everything
          /\ (SecretConfigured /\ out'.req.key # adminKey) =>
                /\ out'.code = 401
                /\ out'.detail = "Unauthorized"
                /\ UNCHANGED Everything]_vars

C7_Witness ==
    /\ out.op = "review_order"
    /\ out.code = 401
    /\ out.req.key = NoValue
    /\ ValidDecision(out.req.decision)
    /\ HasProof(out.req.order_id)

NotActive(items) ==
    {Strip(items[i].product_id) : i \in 1..Len(items)} \ {id \in ProductIds : IsActive(id)}

\* C8: createOrder with a non-empty item list in which a product id is not
\* active (unknown or inactive) fails with 400 'Products not found' naming
\* exactly the requested ids that are not active, and creates no order row
\* and no order-item row.
C8_MissingProductsAllNamed ==
    [][(/\ out'.op = "create_order"
        /\ out'.req.items # <<>>
        /\ NotActive(out'.req.items) # {}) =>
           /\ out'.code = 400
           /\ out'.detail = "Products not found"
           /\ out'.body = NotActive(out'.req.items)
           /\ UNCHANGED <<orders, order_items, tx, nextOrder>>]_vars

C8_Witness ==
    /\ out.op = "create_order"
    /\ out.detail = "Products not found"
    /\ out.body = {"p3", "p9"}

\* C9: createOrder with an empty item list fails with 400 'Empty items' and
\* creates no order row and no order-item row.
C9_EmptyItemsRejected ==
    [][(out'.op = "create_order" /\ out'.req.items = <<>>) =>
          /\ out'.code = 400
          /\ out'.detail = "Empty items"
          /\ UNCHANGED <<orders, order_items, payment_proofs, tx, nextOrder>>]_vars

C9_Witness ==
    /\ out.op = "create_order"
    /\ out.detail = "Empty items"
    /\ DOMAIN orders # {}

\* C10: submitProof with an allowed content type and a payload longer than
\* 5 MiB fails with 400 'File too large' without a blob write attempt and
\* without a relational change; a payload of exactly 5 MiB is not rejected
\* for its size.
C10_OversizeRejectedBeforeUpload ==
    [][(/\ out'.op = "upload_payment_proof"
        /\ out'.req.content_type \in {"image/jpeg", "image/png", "application/pdf"}) =>
           /\ out'.req.size > FiveMiB =>
                 /\ out'.code = 400
                 /\ out'.detail = "File too large (max 5MB)"
                 /\ UNCHANGED <<blobs, nextBlob, orders, order_items, payment_proofs, tx>>
           /\ out'.req.size = FiveMiB => out'.detail # "File too large (max 5MB)"]_vars

C10_Witness ==
    /\ out.op = "upload_payment_proof"
    /\ out.detail = "File too large (max 5MB)"
    /\ out.req.size = FiveMiB + 1
    /\ out.req.order_id \in DOMAIN orders

\* C11: a submitProof that is rejected because the order does not exist (404)
\* or because the order already has a proof (duplicate error) has no partial
\* effect: the blob it named is not in the blob store and no relational row
\* was inserted or updated.
C11_RejectedSubmitLeavesNothing ==
    [][\A p \in Procs :
          (/\ pc[p] # "idle"
           /\ pc'[p] = "idle"
           /\ out'.op = "upload_payment_proof"
           /\ (out'.code = 404 \/ DuplicateError(out'))) =>
              /\ loc[p].path \notin blobs'
              /\ UNCHANGED <<orders, order_items, payment_proofs>>]_vars

(***************************************************************************)
(* The catalog over time.  Product rows are edited outside this program    *)
(* (prices change, products are activated and deactivated); SpecCatalog    *)
(* lets such an edit happen between any two requests.                      *)
(***************************************************************************)
Prices == {3, 4}
Catalogs ==
    { [InitialCatalog EXCEPT !["p1"] = [price_sar |-> pr, is_active |-> a]] :
        pr \in Prices, a \in BOOLEAN }

\* the table products as another program leaves it
catalog_changed ==
    /\ \A p \in Procs : pc[p] = "idle"
    /\ \E c \in Catalogs \ {products} : products' = c
    /\ out' = Silent
    /\ UNCHANGED <<adminKey, db, blobs, nextOrder, nextBlob, pc, loc, tx>>

CatalogPayloads ==
    WorkflowPayloads \cup
    { <<[product_id |-> "p1", qty |-> 1], [product_id |-> "p2", qty |-> 2]>> }

NextCatalog ==
    \/ catalog_changed
    \/ \E p \in OneWorker :
        \/ \E items \in CatalogPayloads : create_order_begin(p, items)
        \/ \E o \in OrderIds : get_order_begin(p, o)
        \/ \E o \in OrderIds :
              upload_payment_proof_begin(p, o, "image/png", MaxProofBytes,
                                         PaidForm, TRUE)
        \/ \E o \in OrderIds, d \in {"approve", " Reject "} :
              review_order_begin(p, o, d, NoValue, "s3cret")
        \/ Continue(p)

SpecCatalog == Init /\ [][NextCatalog]_vars

ItemRows(table, o) ==
    LET Mine(row) == row.order_id = o
        rows == SelectSeq(table, Mine)
    IN [i \in 1..Len(rows) |->
          [product_id |-> rows[i].product_id, qty |-> rows[i].qty,
           price_sar |-> rows[i].price_sar]]
EntriesAtCatalogPrice(items) ==
    [i \in 1..Len(items) |->
        [product_id |-> Strip(items[i].product_id), qty |-> items[i].qty,
         price_sar |-> products[Strip(items[i].product_id)].price_sar]]

\* C12: a successful createOrder stores one item row per input entry, with
\* the entry's (stripped) product id and quantity and the catalog's unit
\* price of that moment, and stores the total it returns; no later step
\* (catalog edit, submitProof, review, getOrder) changes an order's total or
\* its item rows; and getOrder returns exactly the stored items and total.
C12_RoundTripKeepsCreationPrices ==
    [][/\ (out'.op = "create_order" /\ out'.code = 200) =>
             LET o == out'.body.order_id
             IN /\ ItemRows(order_items', o) = EntriesAtCatalogPrice(out'.req.items)
                /\ orders'[o].total_sar = out'.body.total_sar
       /\ \A o \in DOMAIN orders :
             /\ o \in DOMAIN orders'
             /\ orders'[o].total_sar = orders[o].total_sar
             /\ ItemRows(order_items', o) = ItemRows(order_items, o)
       /\ (out'.op = "get_order" /\ out'.code = 200) =>
             /\ out'.body.items = ItemRows(order_items, out'.req.order_id)
             /\ out'.body.order.total_sar = orders[out'.req.order_id].total_sar]_vars

C12_Witness ==
    /\ out.op = "get_order"
    /\ out.code = 200
    /\ Len(out.body.items) = 2
    /\ out.body.items[1].price_sar # products[out.body.items[1].product_id].price_sar
    /\ ~products[out.body.items[1].product_id].is_active
    /\ out.body.payment_proof # <<>>
    /\ out.body.payment_proof[1].status = "approved"

\* C13: when the blob store reports an error for the write of a submitProof
\* (whose file passed the type and size checks), the submitProof fails with
\* 500 'Upload failed' and makes no relational change: no proof row is
\* inserted or pending, and every order keeps its status.
C13_UploadFailureChangesNoRow ==
    [][(/\ out'.op = "upload_payment_proof"
        /\ out'.req.content_type \in {"image/jpeg", "image/png", "application/pdf"}
        /\ out'.req.size <= FiveMiB
        /\ ~out'.req.upload_ok) =>
           /\ out'.code = 500
           /\ out'.detail = "Upload failed"
           /\ UNCHANGED <<orders, order_items, payment_proofs, tx>>]_vars

C13_Witness ==
    /\ out.op = "upload_payment_proof"
    /\ out.detail = "Upload failed"
    /\ out.req.order_id \in DOMAIN orders
    /\ orders[out.req.order_id].status = "pending_payment"
    /\ ~HasProof(out.req.order_id)

HasProofWith(o, st) ==
    \E i \in 1..Len(payment_proofs) :
        payment_proofs[i].order_id = o /\ payment_proofs[i].status = st

\* C14: in every committed state an order is in pending_payment if and only
\* if it has no proof row, an order in proof_submitted has a proof row with
\* status submitted, an order in approved has a proof row with status
\* approved, and an order in rejected has a proof row with status rejected.
C14_StatusMatchesProof ==
    \A o \in DOMAIN orders :
        /\ orders[o].status = "pending_payment" <=> ~HasProof(o)
        /\ orders[o].status = "proof_submitted" => HasProofWith(o, "submitted")
        /\ orders[o].status = "approved" => HasProofWith(o, "approved")
        /\ orders[o].status = "rejected" => HasProofWith(o, "rejected")

C14_Witness ==
    /\ \A p \in Procs : tx[p] = <<>>
    /\ 1 \in DOMAIN orders
    /\ orders[1].status = "approved"
    /\ HasProofWith(1, "approved")
    /\ HasProofWith(1, "submitted")

\* C15: under any interleaving of concurrent submitProof and review
\* transactions, no step sets the status of an order that a review has set to
\* approved or rejected back to proof_submitted.
C15_SubmitNeverOverwritesReview ==
    [][\A o \in DOMAIN orders :
          orders[o].status \in Final => orders'[o].status # "proof_submitted"]_vars

DecidedStatus(d) == IF d = "approve" THEN "approved" ELSE "rejected"

C17_ReviewNoteCoalesce ==
    [][(out'.op = "review_order" /\ out'.code = 200) =>
          /\ Len(payment_proofs') = Len(payment_proofs)
          /\ \A i \in 1..Len(payment_proofs) :
                /\ payment_proofs'[i].order_id = payment_proofs[i].order_id
                /\ payment_proofs'[i].file_path = payment_proofs[i].file_path
                /\ payment_proofs'[i].amount_sar = payment_proofs[i].amount_sar
                /\ payment_proofs'[i].note =
                      IF /\ payment_proofs[i].order_id = out'.req.order_id
                         /\ out'.req.note # NoValue
                        THEN out'.req.note
                        ELSE payment_proofs[i].note]_vars

C17_Witness ==
    /\ out.op = "review_order"
    /\ out.code = 200
    /\ out.req.note = NoValue
    /\ \E i \in 1..Len(payment_proofs) :
          /\ payment_proofs[i].order_id = out.req.order_id
          /\ payment_proofs[i].note = "paid"
          /\ payment_proofs[i].amount_sar = <<50>>

(***************************************************************************)
(* createOrder and its observers.  A statement of create_order's           *)
(* transaction can fail (the store raises); the exception leaves the       *)
(* `with SessionLocal() as db` block, the session is closed and its        *)
(* transaction rolled back.  SpecObserve runs createOrder, with such       *)
(* failures, concurrently with getOrder and listByStatus.                  *)
(***************************************************************************)
\* a session that commits what its transaction has written so far
Rollback_partial_commit(p) == Commit(p)

\* the session is closed without commit: its writes are discarded
Rollback(p) ==
    /\ tx' = [tx EXCEPT ![p] = <<>>]
    /\ UNCHANGED db

\* lines 140-166: a statement raises after the order row was inserted
create_order_abort(p) ==
    /\ pc[p] \in {"create_items", "create_commit"}
    /\ Rollback(p)
    /\ Finish(p, loc[p].req, Http(500, "Internal Server Error"))
    /\ UNCHANGED <<adminKey, products, blobs, nextOrder, nextBlob>>

ObservePayloads ==
    CatalogPayloads \cup { <<[product_id |-> "p2", qty |-> 1]>> }

NextObserve ==
    \E p \in Procs :
        \/ \E items \in ObservePayloads : create_order_begin(p, items)
        \/ create_order_item(p)
        \/ create_order_commit(p)
        \/ create_order_abort(p)
        \/ \E o \in ReqOrderIds : get_order_begin(p, o)
        \/ get_order_items(p)
        \/ get_order_proof(p)
        \/ \E s \in {"pending_payment", "proof_submitted"} :
              admin_list_orders(p, s, "s3cret")

SpecObserve == Init /\ [][NextObserve]_vars

RECURSIVE ItemsValue(_)
ItemsValue(items) ==
    IF items = <<>> THEN 0
    ELSE Head(items).qty * Head(items).price_sar + ItemsValue(Tail(items))

\* C18: createOrder is atomic for its observers.  A successful createOrder
\* makes the order row visible together with one item row per entry of its
\* item list, a failed one leaves no order row and no item row; every order
\* row visible in the store, returned by getOrder or listed by listByStatus
\* has its complete item set (item rows that add up to the order's total,
\* which was computed over every entry); and a getOrder running while the
\* order is being created does not find it.
C18_CreateOrderAtomicForObservers ==
    [][/\ (out'.op = "create_order" /\ out'.code = 200) =>
             Len(ItemRows(order_items', out'.body.order_id)) = Len(out'.req.items)
       /\ (out'.op = "create_order" /\ out'.code # 200) =>
             UNCHANGED <<orders, order_items>>
       /\ \A o \in DOMAIN orders' :
             /\ ItemRows(order_items', o) # <<>>
             /\ ItemsValue(ItemRows(order_items', o)) = orders'[o].total_sar
       /\ (out'.op = "get_order" /\ out'.code = 200) =>
             /\ out'.body.items = ItemRows(order_items', out'.req.order_id)
             /\ ItemsValue(out'.body.items) = out'.body.order.total_sar
       /\ (out'.op = "get_order" /\ out'.code # 200) =>
             \A p \in Procs :
                 (pc'[p] \in {"create_items", "create_commit"}
                    /\ loc'[p].order_id = out'.req.order_id) =>
                       out'.req.order_id \notin DOMAIN orders'
       /\ (out'.op = "admin_list_orders" /\ out'.code = 200) =>
             \A r \in out'.body :
                 ItemsValue(ItemRows(order_items', r.id)) = r.total_sar]_vars

\* a getOrder answered while the order's transaction holds the order row
\* and the first of its two item rows, uncommitted
C18_Witness ==
    /\ out.op = "get_order"
    /\ out.code = 404
    /\ \E p \in Procs :
          /\ pc[p] = "create_items"
          /\ Len(tx[p]) = 2
          /\ loc[p].order_id = out.req.order_id

\* C19: submitProof checks the content type, then the size, then that the
\* order exists, then that it has no proof yet, and reports the first check
\* that fails: a disallowed type gives 'Unsupported file type' also for an
\* oversized payload or an unknown order; an oversized payload of an allowed
\* type gives 'File too large' also for an unknown order or an order with a
\* proof; an unknown order gives 404; an order with a proof the duplicate
\* error.
C19_ChecksInOrder ==
    [][out'.op = "upload_payment_proof" =>
          LET r == out'.req
              typeOk == r.content_type \in {"image/jpeg", "image/png", "application/pdf"}
              sizeOk == r.size <= FiveMiB
              known == r.order_id \in DOMAIN orders
          IN /\ ~typeOk =>
                   /\ out'.code = 400
                   /\ out'.detail = "Unsupported file type (jpg/png/pdf only)"
             /\ (typeOk /\ ~sizeOk) =>
                   /\ out'.code = 400
                   /\ out'.detail = "File too large (max 5MB)"
             /\ (typeOk /\ sizeOk /\ r.upload_ok /\ ~known) =>
                   /\ out'.code = 404
                   /\ out'.detail = "Order not found"
             /\ (typeOk /\ sizeOk /\ r.upload_ok /\ known /\ HasProof(r.order_id)) =>
                   DuplicateError(out')]_vars

C19_Witness ==
    /\ out.op = "upload_payment_proof"
    /\ out.detail = "Unsupported file type (jpg/png/pdf only)"
    /\ out.req.size > FiveMiB
    /\ out.req.order_id \notin DOMAIN orders
    /\ DOMAIN orders # {}

GateAnswer ==
    IF SecretConfigured THEN [code |-> 401, detail |-> "Unauthorized", body |-> <<>>]
                        ELSE [code |-> 500, detail |-> "ADMIN_API_KEY not set", body |-> <<>>]

\* C20: in review the authorization check comes before every other check.
\* With no secret configured, or with a key that is absent or differs from
\* the secret, the whole response (code, detail, body) is the gate's answer,
\* which depends on the configuration only: it is the same for every order
\* id (known or not, with or without proof) and every decision (valid or
\* not).  It is sent by the handler's first step, before any statement has
\* run, and nothing changes.
C20_AuthorizationFirst ==
    [][(/\ out'.op = "review_order"
        /\ (~SecretConfigured \/ out'.req.key # adminKey)) =>
           /\ [code |-> out'.code, detail |-> out'.detail, body |-> out'.body] = GateAnswer
           /\ UNCHANGED pc
           /\ UNCHANGED Everything]_vars

C20_Witness ==
    /\ out.op = "review_order"
    /\ out.code = 401
    /\ out.req.key = "wrong"
    /\ out.req.decision = "maybe"
    /\ out.req.order_id \notin DOMAIN orders
    /\ DOMAIN orders # {}

(***************************************************************************)
(* SpecRace: submitProof and review under concurrency, without observers:  *)
(* every worker may submit or review at any time and the statements of the *)
(* two handlers interleave.                                                *)
(***************************************************************************)
RacePayloads == { <<[product_id |-> "p2", qty |-> 1]>> }

NextRace ==
    \E p \in Procs :
        \/ \E items \in RacePayloads : create_order_begin(p, items)
        \/ create_order_item(p)
        \/ create_order_commit(p)
        \/ \E o \in OrderIds :
              upload_payment_proof_begin(p, o, "image/png", MaxProofBytes,
                                         PaidForm, TRUE)
        \/ upload_payment_proof_order(p)
        \/ upload_payment_proof_insert(p)
        \/ upload_payment_proof_update(p)
        \/ upload_payment_proof_commit(p)
        \/ \E o \in OrderIds, d \in {"approve", " Reject "} :
              review_order_begin(p, o, d, NoValue, "s3cret")
        \/ review_order_select_order(p)
        \/ review_order_update_proof(p)
        \/ review_order_update_order(p)
        \/ review_order_commit(p)

SpecRace == Init /\ [][NextRace]_vars
====
